---------------------------- MODULE Spec2Model ----------------------------
(***************************************************************************)
(* A model of the proof-of-storage core of rust-fil-proofs:                *)
(*   - the bucket-sampling depth-robust graph  (storage-proofs/drgraph.rs) *)
(*   - the Merkle tree built over a graph's node data, its inclusion       *)
(*     proofs and the digest node hash          (drgraph.rs, digest.rs)    *)
(*   - the in-memory QAP cache                  (filecoin-proofs/util.rs)  *)
(*   - the batched inclusion circuit            (circuit/ppor/mod.rs)      *)
(* Each part has its own specification over the shared variables; the      *)
(* variables of the other parts stay at their initial values.              *)
(***************************************************************************)
EXTENDS Integers, Sequences, FiniteSets, TLC

VARIABLES
    graphs,     \* the constructed BucketGraph values, by graph id
    pcall,      \* per caller: the parents() call in progress or just finished
    tinput,     \* the hash backend and the node data handed to merkle_tree_aux
    build,      \* the merkle_tree_aux call in progress or finished
    proof,      \* the inclusion proof in hand, or NoProof
    cache,      \* the QAP cache: key -> instance, 0 for no entry
    lock,       \* the thread that holds the cache's mutex, or 0
    lk,         \* per thread: the qap_cache_lookup call in progress or finished
    calls,      \* the number of qap_cache_lookup calls entered so far
    circ,       \* the circuit instance: root, values and authentication paths
    cs,         \* the constraint system synthesize filled
    fcall       \* the call of a function in progress: its argument and result

vars == <<graphs, pcall, tinput, build, proof, cache, lock, lk, calls, circ, cs, fcall>>

treeVars == <<tinput, build, proof>>

cacheVars == <<cache, lock, lk, calls>>

circVars == <<circ, cs>>

(***************************************************************************)
(* Bounds of the model.                                                    *)
(***************************************************************************)
MaxNodes == 5       \* graphs have 2..MaxNodes nodes
MaxSeed == 1        \* seeds are SeedOf(0) .. SeedOf(MaxSeed)
ExtraSlots == 1     \* an output buffer has base_degree .. base_degree+ExtraSlots slots
MaxCalls == 4       \* qap_cache_lookup is entered at most MaxCalls times
MaxBatch == 2       \* a circuit instance has 1..MaxBatch witnesses
MaxLeaves == 4      \* the tree of a circuit instance has 2..MaxLeaves leaves
MaxRest == 3        \* sizes are 2^exp + rest with rest in 0..MaxRest
MaxFairCalls == 2   \* the fair specification enters at most MaxFairCalls lookups
MaxWrap == 3        \* the wide nodes are those whose product with the degree wraps to 1..MaxWrap
MaxBlocks == 3      \* a digest input has at most MaxBlocks blocks and one byte
MaxPath == 3        \* an authentication path of a synthesis by phase has at most MaxPath levels

(***************************************************************************)
(* Program constants.                                                      *)
(***************************************************************************)
BASE_DEGREE == 5

\* Two callers may be inside parents() at once; two graph values exist.
Callers == {1, 2}
GraphIds == {1, 2}

\* A value that no parent slot can hold after a call: stale buffer contents.
Garbage == MaxNodes + 4

RECURSIVE Pow2(_)
Pow2(n) == IF n = 0 THEN 1 ELSE 2 * Pow2(n - 1)

\* ((x) as f32).log2().floor() as usize, exact while x < 2^24.
RECURSIVE FloorLog2(_)
FloorLog2(x) == IF x <= 1 THEN 0 ELSE 1 + FloorLog2(x \div 2)

Min(a, b) == IF a < b THEN a ELSE b
Max(a, b) == IF a > b THEN a ELSE b

(***************************************************************************)
(* BucketGraph                                                             *)
(***************************************************************************)
\* A seed is [u32; 7].
SeedOf(x) == [i \in 1..7 |-> (x * i) % 4]
Seeds == {SeedOf(x) : x \in 0..MaxSeed}

BucketGraph_new(nodes, base_degree, expansion_degree, seed) ==
    [nodes |-> nodes, base_degree |-> base_degree, seed |-> seed]

GraphValues ==
    {BucketGraph_new(n, BASE_DEGREE, 0, s) : n \in 2..MaxNodes, s \in Seeds}

\* The words the per-node stream can yield.  Every residue that
\* `gen::<usize>() % logi` and gen_range can produce for a graph of at most
\* MaxNodes nodes is the residue of one of them.
RawVals == 0..Pow2(FloorLog2((MaxNodes - 1) * BASE_DEGREE) - 1)

\* A variant that also feeds the graph's size into the stream's key.
StreamSeedWithSize(g, node) ==
    [i \in 1..8 |-> IF i <= 6 THEN g.seed[i] ELSE IF i = 7 THEN g.nodes ELSE node]

\* seed = self.seed | node.  `node as u32` keeps every node below 2^32 as it is.
StreamSeed(g, node) == [i \in 1..8 |-> IF i <= 7 THEN g.seed[i] ELSE node]

\* ChaChaRng::from_seed: a fresh generator at the start of the key's stream.
ChaChaRng_from_seed(seed8) == [key |-> seed8, pos |-> 0]

\* The stream cipher is not part of the repository.  Its output is a fixed
\* function of the 8-word key and the position in the stream; this stands
\* in for it.
ChaChaWord(rng) ==
    LET k == rng.key
        mix == k[1] + 3 * k[2] + 5 * k[3] + 7 * k[4] + 11 * k[5] + 13 * k[6]
               + 17 * k[7] + 19 * k[8]
    IN (mix * (rng.pos + 1) + rng.pos * rng.pos + 2 * k[8] * rng.pos + rng.pos \div 2)
           % (MaxNodes * BASE_DEGREE + 1)

\* rng.gen_range(low, high): a value of [low, high), low < high.
GenRange(w, low, high) == low + (w % (high - low))

\* A variant that leaves the slots in the order they were filled.
SortNone(s) == s

\* parents[0..m].sort_unstable()
SortAscending(s) == SortSeq(s, LAMBDA a, b : a < b)

\* A variant of the loop body that keeps a self reference.
BucketSampleKeepSelf(node, m, k, w1, w2) ==
    LET logi == FloorLog2(node * m)
        j == w1 % logi
        jj == Min(node * m + k, Pow2(j + 1))
        back_dist == GenRange(w2, Max(jj \div 2, 2), jj + 1)
        out == (node * m + k - back_dist) \div m
    IN  [panic |-> "none", parent |-> out]

\* One pass of the loop body for slot k (0-based) of `node`, with the two
\* words w1, w2 the generator yields.  The result is the value written to
\* the slot, or a panic.
BucketSample(node, m, k, w1, w2) ==
    LET logi == FloorLog2(node * m)
    IN  IF logi = 0 THEN [panic |-> "rem_by_zero", parent |-> 0]
        ELSE
        LET j == w1 % logi
            jj == Min(node * m + k, Pow2(j + 1))
            back_dist == GenRange(w2, Max(jj \div 2, 2), jj + 1)
        IN  IF back_dist > node * m + k
            THEN [panic |-> "sub_overflow", parent |-> 0]
            ELSE
            LET out == (node * m + k - back_dist) \div m
            IN  IF out = node THEN [panic |-> "none", parent |-> node - 1]
                ELSE IF out <= node THEN [panic |-> "none", parent |-> out]
                ELSE [panic |-> "assert_out_le_node", parent |-> 0]

\* The generator a caller holds when no call is in progress.
NoRng == [key |-> <<>>, pos |-> 0]

NoCall ==
    [pc |-> "idle", gid |-> 0, node |-> 0, k |-> 0, parents |-> <<>>,
     prior |-> <<>>, filled |-> <<>>, rng |-> NoRng, panic |-> "none"]

\* The slots of buf that `iter_mut().take(m)` visits.
Taken(buf, m) == 1..Min(Len(buf), m)

PriorBuffers(m) ==
    UNION {{[i \in 1..len |-> 0], [i \in 1..len |-> Garbage + len - i]} :
           len \in m..(m + ExtraSlots)}

\* After the loop: parents[0..m].sort_unstable(), the slots past m untouched.
SortTaken(buf, m) ==
    LET head == SortAscending(SubSeq(buf, 1, m))
    IN  [i \in 1..Len(buf) |-> IF i <= m THEN head[i] ELSE buf[i]]

\* A variant that marks a node without parents by the node itself.
SelfFill(buf, m, node) ==
    [i \in 1..Len(buf) |-> IF i \in Taken(buf, m) THEN node ELSE buf[i]]

\* `match node { 0 | 1 => ... }`: every visited slot is set to 0.
ZeroFill(buf, m, node) == [i \in 1..Len(buf) |-> IF i \in Taken(buf, m) THEN 0 ELSE buf[i]]

\* parents(node, buf) is entered by caller t on graph gid.  Nodes 0 and 1 are
\* answered at once; any other node seeds its generator and starts the loop.
ParentsEnter(t, gid, node, buf) ==
    /\ pcall[t].pc = "idle"
    /\ node \in 0..(graphs[gid].nodes - 1)
    /\ LET g == graphs[gid]
           m == g.base_degree
       IN  pcall' = [pcall EXCEPT ![t] =
              IF node \in {0, 1}
              THEN [pc |-> "done", gid |-> gid, node |-> node, k |-> m,
                    parents |-> ZeroFill(buf, m, node), prior |-> buf,
                    filled |-> ZeroFill(buf, m, node), rng |-> NoRng, panic |-> "none"]
              ELSE [pc |-> "sampling", gid |-> gid, node |-> node, k |-> 0,
                    parents |-> buf, prior |-> buf, filled |-> buf,
                    rng |-> ChaChaRng_from_seed(StreamSeed(g, node)),
                    panic |-> "none"]]
    /\ UNCHANGED <<graphs, treeVars, cacheVars, circVars, fcall>>

\* One iteration of the sampling loop of caller t, the generator yielding
\* w1 then w2; the last iteration is followed by the sort.
ParentsSlot(t, w1, w2) ==
    /\ pcall[t].pc = "sampling"
    /\ LET c == pcall[t]
           m == graphs[c.gid].base_degree
           r == BucketSample(c.node, m, c.k, w1, w2)
           buf == [c.parents EXCEPT ![c.k + 1] = r.parent]
           rng == [c.rng EXCEPT !.pos = c.rng.pos + 2]
       IN  pcall' = [pcall EXCEPT ![t] =
              IF r.panic # "none"
              THEN [c EXCEPT !.pc = "panic", !.panic = r.panic, !.rng = rng]
              ELSE IF c.k + 1 < m
              THEN [c EXCEPT !.k = c.k + 1, !.parents = buf, !.filled = buf,
                             !.rng = rng]
              ELSE [c EXCEPT !.pc = "done", !.k = c.k + 1, !.filled = buf,
                             !.parents = SortTaken(buf, m), !.rng = rng]]
    /\ UNCHANGED <<graphs, treeVars, cacheVars, circVars, fcall>>

\* The stream is arbitrary: any two words.
SampleAny(t) == \E w1, w2 \in RawVals : ParentsSlot(t, w1, w2)

\* The stream is the cipher's, read at the generator's position.
SampleStream(t) ==
    LET r == pcall[t].rng
    IN  ParentsSlot(t, ChaChaWord(r), ChaChaWord([r EXCEPT !.pos = r.pos + 1]))

\* The caller drops the buffer of a finished call and may start another.
\* Until then the buffer keeps the call's result.
ParentsReturn(t) ==
    /\ pcall[t].pc = "done"
    /\ pcall' = [pcall EXCEPT ![t] = NoCall]
    /\ UNCHANGED <<graphs, treeVars, cacheVars, circVars, fcall>>


GraphIdle == pcall = [t \in Callers |-> NoCall]

(***************************************************************************)
(* Domain values and the node hash                                         *)
(***************************************************************************)
NODE_SIZE == 32

Backends == {"pedersen", "sha256", "blake2s"}

\* A domain value is 32 bytes.  A value is written relative to the bytes
\* its `base` stands for, a piece of node data or the digest of what a hasher
\* was fed: `bi`, `bd` tell that byte bi (1..32) differs from the base by the
\* XOR difference bd (bi = 0: no byte differs), where for the last byte bd
\* covers its low six bits only.  The top two bits of the last byte are `tx`
\* itself when `abs` holds, and otherwise the two bits the digest has there
\* XORed with `tx`.  Two bases stand for byte strings that differ in more
\* than those two bits.
Val(base) == [base |-> base, bi |-> 0, bd |-> 0, tx |-> 0, abs |-> FALSE]

\* Node data: the bytes named id, the top two bits of the last byte being top.
DataLeaf(id, top) == [Val(<<"data", <<id>>>>) EXCEPT !.tx = top, !.abs = TRUE]

LeafVals == {DataLeaf(1, 0), DataLeaf(2, 2)}

\* Node data that is the encoding of a field element.
FieldLeafVals == {DataLeaf(1, 0), DataLeaf(2, 0)}

\* Node data a backend's try_from_bytes accepts: any 32 bytes for the digest
\* backends, the encoding of a field element for Pedersen.
NodeValues(backend) == IF backend = "pedersen" THEN FieldLeafVals ELSE LeafVals

Absent == Val(<<"absent", <<>>>>)

\* Bitwise XOR of two 2-bit numbers.
Xor2(a, b) == (((a % 2) + (b % 2)) % 2) + 2 * (((a \div 2) + (b \div 2)) % 2)

\* x.0[31] &= 0b0011_1111
MaskTop(v) == [v EXCEPT !.tx = 0, !.abs = TRUE]

\* The bytes of a value as they are fed to a hasher.
Enc(v) == <<v.base, v.bi, v.bd, v.tx, v.abs>>

\* StdHasher::write: the message is appended to what the hasher was fed.
AlgWrite(a, msg) == Append(a, msg)

\* A variant of reset that leaves the hasher as it is.
AlgKeep(a) == a

\* Algorithm::reset
AlgReset(a) == <<>>

\* Algorithm::hash: the digest of what the hasher was fed; the digests of
\* two different inputs differ.
AlgHash(alg, a) == Val(<<alg, a>>)

\* Algorithm::leaf
AlgLeaf(leaf) == leaf

\* Algorithm::node of DigestFunction: the height and the two children, each
\* with the top two bits of its last byte cleared, are fed to the hasher.
DigestNode(alg, a, left, right, height) ==
    LET a1 == AlgWrite(a, <<height>>)
        l == MaskTop(left)
        r == MaskTop(right)
        a3 == AlgWrite(AlgWrite(a1, Enc(l)), Enc(r))
    IN  [state |-> a3, out |-> AlgHash(alg, a3)]

\* The Pedersen node hash: a collision-free function of the height and the
\* two children.
PedersenNode(a, left, right, height) ==
    [state |-> a,
     out |-> Val(<<"pedersen", <<<<height>>, Enc(left), Enc(right)>>>>)]

AlgNode(backend, a, left, right, height) ==
    IF backend = "pedersen" THEN PedersenNode(a, left, right, height)
    ELSE DigestNode(backend, a, left, right, height)

(***************************************************************************)
(* The Merkle tree and its inclusion proofs                                *)
(***************************************************************************)
\* One row of the tree: each pair of the row below is hashed by the tree's
\* hasher, reset before each node.
RECURSIVE BuildRow(_, _, _, _, _, _)
BuildRow(backend, a, row, height, i, acc) ==
    IF 2 * i > Len(row) THEN [state |-> a, row |-> acc]
    ELSE LET r == AlgNode(backend, AlgReset(a), row[2 * i - 1], row[2 * i], height)
         IN  BuildRow(backend, r.state, row, height, i + 1, Append(acc, r.out))

\* Bottom-up: a row of odd width gets its last element once more.
RECURSIVE BuildLevels(_, _, _, _, _)
BuildLevels(backend, a, row, height, levels) ==
    IF Len(row) <= 1 THEN Append(levels, row)
    ELSE LET padded == IF Len(row) % 2 = 1 THEN Append(row, row[Len(row)]) ELSE row
             next == BuildRow(backend, a, padded, height, 1, <<>>)
         IN  BuildLevels(backend, next.state, next.row, height + 1,
                         Append(levels, padded))

MerkleTree_new(backend, leaves) ==
    [leafs |-> Len(leaves),
     levels |-> BuildLevels(backend, <<>>, [i \in 1..Len(leaves) |-> AlgLeaf(leaves[i])],
                            0, <<>>)]

Root(tree) == tree.levels[Len(tree.levels)][1]

\* From the leaf at index j (0-based) of row h upwards: the sibling at each
\* level and whether the current subtree is the right child.
RECURSIVE ProofPath(_, _, _, _)
ProofPath(levels, h, j, acc) ==
    IF h >= Len(levels) THEN acc
    ELSE LET row == levels[h]
             sib == IF j % 2 = 0 THEN row[j + 2] ELSE row[j]
         IN  ProofPath(levels, h + 1, j \div 2,
                       Append(acc, [sib |-> sib, is_right |-> (j % 2 = 1)]))

gen_proof(tree, i) ==
    [leaf |-> tree.levels[1][i + 1],
     path |-> ProofPath(tree.levels, 1, i, <<>>),
     root |-> Root(tree)]

\* The hash chain from cur upwards through path, with a hasher of its own.
RECURSIVE Replay(_, _, _, _, _)
Replay(backend, a, cur, path, h) ==
    IF h >= Len(path) THEN cur
    ELSE LET e == path[h + 1]
             r == IF e.is_right
                  THEN AlgNode(backend, AlgReset(a), e.sib, cur, h)
                  ELSE AlgNode(backend, AlgReset(a), cur, e.sib, h)
         IN  Replay(backend, r.state, r.out, path, h + 1)

Proof_validate(backend, p) == Replay(backend, <<>>, p.leaf, p.path, 0) = p.root

(***************************************************************************)
(* Graph::merkle_tree_aux                                                  *)
(***************************************************************************)
\* data.len(): the node-sized chunks and the bytes after the last of them.
DataLen(data) == NODE_SIZE * Len(data.nodes) + data.extra

\* A byte slice: its length, and the value its first 32 bytes encode.
Bytes(len, val) == [len |-> len, val |-> val]

\* data_at_node(&data, i): the i-th node-sized chunk.
DataAtNode(data, i) == Bytes(NODE_SIZE, data.nodes[i + 1])

\* The 32 bytes encode a field element: the top bit of the last byte is clear.
InField(v) == v.abs /\ v.tx < 2

\* PedersenDomain::try_from_bytes: bytes that encode no field element are
\* refused.
PedersenTryFromBytes(raw) ==
    IF raw.len # NODE_SIZE \/ ~InField(raw.val)
    THEN [ok |-> FALSE, err |-> "BadFrBytes", val |-> Absent]
    ELSE [ok |-> TRUE, err |-> "none", val |-> raw.val]

\* A variant that takes a slice of any length.
DigestTryFromBytesAnyLen(raw) == [ok |-> TRUE, err |-> "none", val |-> raw.val]

\* DigestDomain::try_from_bytes
DigestTryFromBytes(raw) ==
    IF raw.len # 32
    THEN [ok |-> FALSE, err |-> "InvalidInputSize", val |-> Absent]
    ELSE [ok |-> TRUE, err |-> "none", val |-> raw.val]

\* H::Domain::try_from_bytes
TryFromBytes(backend, raw) ==
    IF backend = "pedersen" THEN PedersenTryFromBytes(raw) ELSE DigestTryFromBytes(raw)

\* What a leaf task leaves behind when it panics.
Panicked == Val(<<"panic", <<>>>>)

\* Result::expect: the value on Ok, a panic on Err.
Expect(r) == IF r.ok THEN r.val ELSE Panicked

\* The closure f of merkle_tree_aux.
LeafOf(backend, data, i) == Expect(TryFromBytes(backend, DataAtNode(data, i)))

\* A variant in which every task reads the first node.
ParMapFirst(backend, data, i) == LeafOf(backend, data, 0)

\* (0..self.size()).into_par_iter().map(f): the task of index i computes f(i).
ParMap(backend, data, i) == LeafOf(backend, data, i)

\* (0..self.size()).map(f): the leaves in the order of their indices.
SeqMap(backend, data, n) == [i \in 1..n |-> LeafOf(backend, data, i - 1)]

\* Some call of f panicked.
AnyPanicked(leaves) == \E i \in 1..Len(leaves) : leaves[i] = Panicked

\* from_par_iter: the leaf a task computed is stored at the task's index.
PlaceLeaf(store, i, v) == [store EXCEPT ![i + 1] = v]

NoBuild == [pc |-> "idle", parallel |-> FALSE, ran |-> {}, store |-> <<>>, tree |-> <<>>]

NoProof ==
    [set |-> FALSE, index |-> 0, leaf |-> Absent, path |-> <<>>, root |-> Absent,
     clevel |-> 0, cbyte |-> 0, cdiff |-> 0]

TreeSize == graphs[1].nodes

\* merkle_tree_aux(data, parallel) is entered.  A wrong data length is
\* refused; the sequential build runs to its end, or to the first panic of
\* f; the parallel build hands one task per leaf to the workers.
MerkleTreeAuxEnter(parallel) ==
    /\ build.pc = "idle"
    /\ tinput.backend \in Backends
    /\ build' =
         IF DataLen(tinput.data) # NODE_SIZE * TreeSize
         THEN [NoBuild EXCEPT !.pc = "err", !.parallel = parallel]
         ELSE IF parallel
         THEN [NoBuild EXCEPT !.pc = "leaves", !.parallel = TRUE,
                              !.store = [i \in 1..TreeSize |-> Absent]]
         ELSE IF AnyPanicked(SeqMap(tinput.backend, tinput.data, TreeSize))
         THEN [NoBuild EXCEPT !.pc = "panic", !.parallel = FALSE]
         ELSE [NoBuild EXCEPT !.pc = "done",
                  !.store = SeqMap(tinput.backend, tinput.data, TreeSize),
                  !.tree = MerkleTree_new(tinput.backend,
                              SeqMap(tinput.backend, tinput.data, TreeSize))]
    /\ UNCHANGED <<graphs, pcall, tinput, proof, cacheVars, circVars, fcall>>

\* A worker runs the task of leaf i; a panic of the task is the panic of the
\* call.
ParLeaf(i) ==
    /\ build.pc = "leaves"
    /\ i \in (0..(TreeSize - 1)) \ build.ran
    /\ build' =
         IF ParMap(tinput.backend, tinput.data, i) = Panicked
         THEN [NoBuild EXCEPT !.pc = "panic", !.parallel = TRUE]
         ELSE [build EXCEPT !.ran = build.ran \cup {i},
                  !.store = PlaceLeaf(build.store, i, ParMap(tinput.backend, tinput.data, i))]
    /\ UNCHANGED <<graphs, pcall, tinput, proof, cacheVars, circVars, fcall>>

\* All tasks have run: the tree is built over the collected leaves.
ParCollect ==
    /\ build.pc = "leaves"
    /\ build.ran = 0..(TreeSize - 1)
    /\ build' = [build EXCEPT !.pc = "done",
                              !.tree = MerkleTree_new(tinput.backend, build.store)]
    /\ UNCHANGED <<graphs, pcall, tinput, proof, cacheVars, circVars, fcall>>

\* tree.gen_proof(i)
GenProof(i) ==
    /\ build.pc = "done"
    /\ i \in 0..(TreeSize - 1)
    /\ LET p == gen_proof(build.tree, i)
       IN  proof' = [NoProof EXCEPT !.set = TRUE, !.index = i, !.leaf = p.leaf,
                                    !.path = p.path, !.root = p.root]
    /\ UNCHANGED <<graphs, pcall, tinput, build, cacheVars, circVars, fcall>>

\* Byte `byte` (1..32) of v is XORed with d, 1 <= d <= 255.
FlipByte(v, byte, d) ==
    IF byte < NODE_SIZE THEN [v EXCEPT !.bi = byte, !.bd = d]
    ELSE [v EXCEPT !.bi = IF d % 64 = 0 THEN 0 ELSE byte,
                   !.bd = d % 64,
                   !.tx = Xor2(v.tx, d \div 64)]

\* The bytes and the differences tried on a sibling.
FlipBytes == {1, NODE_SIZE - 1, NODE_SIZE}
FlipDiffs == {1, 64, 65, 128, 129, 192, 193}

\* One byte of the sibling at `level` of the proof in hand is changed.
CorruptSibling(level, byte, d) ==
    /\ proof.set
    /\ proof.clevel = 0
    /\ level \in 1..Len(proof.path)
    /\ proof' = [proof EXCEPT !.clevel = level, !.cbyte = byte, !.cdiff = d,
                    !.path[level].sib = FlipByte(proof.path[level].sib, byte, d)]
    /\ UNCHANGED <<graphs, pcall, tinput, build, cacheVars, circVars, fcall>>

TreeIdle ==
    /\ tinput = [backend |-> "none", data |-> [nodes |-> <<>>, extra |-> 0]]
    /\ build = NoBuild
    /\ proof = NoProof

\* The node data handed to a graph of n nodes: every sequence of n leaves,
\* and data of a wrong length.
DataInputs(backend, n) ==
    {[nodes |-> s, extra |-> 0] : s \in [1..n -> LeafVals]}
    \cup {[nodes |-> [i \in 1..n |-> DataLeaf(1, 0)], extra |-> 1],
          [nodes |-> [i \in 1..(n - 1) |-> DataLeaf(1, 0)], extra |-> 0]}

(***************************************************************************)
(* qap_cache_lookup                                                        *)
(***************************************************************************)
Threads == {1, 2, 3}

Keys == {"porep", "post"}

\* The cache is a map from keys to shared instances; 0 stands for no entry.
\* An instance is named by the number of the call whose Arc::new made it.
EmptyCache == [k \in Keys |-> 0]

NoLookup ==
    [pc |-> "idle", key |-> "", id |-> 0, new_entry |-> 0, res |-> 0, err |-> FALSE,
     overlap |-> {}]

\* The calls that have been entered and have not returned.
Running(t) == lk[t].pc \notin {"idle", "done"}

\* qap_cache_lookup(cache_ref, id, loader) is entered by thread t.  The
\* calls running at this moment and the new call overlap.
LookupEnter(t, key) ==
    /\ lk[t].pc = "idle"
    /\ calls < MaxCalls
    /\ calls' = calls + 1
    /\ lk' = [u \in Threads |->
                IF u = t
                THEN [NoLookup EXCEPT !.pc = "lock1", !.key = key, !.id = calls + 1,
                         !.overlap = {lk[v].id : v \in {w \in Threads : Running(w)}}]
                ELSE IF Running(u)
                THEN [lk[u] EXCEPT !.overlap = lk[u].overlap \cup {calls + 1}]
                ELSE lk[u]]
    /\ UNCHANGED <<cache, lock, graphs, pcall, treeVars, circVars, fcall>>

\* (*cache_ref).lock().unwrap() of the first block
LockFirst(t) ==
    /\ lk[t].pc = "lock1"
    /\ lock = 0
    /\ lock' = t
    /\ lk' = [lk EXCEPT ![t].pc = "get"]
    /\ UNCHANGED <<cache, calls, graphs, pcall, treeVars, circVars, fcall>>

\* A variant of the first block whose guard outlives the block on a miss.
CacheGetKeepGuard(t) ==
    /\ lk[t].pc = "get"
    /\ lock = t
    /\ lock' = IF cache[lk[t].key] # 0 THEN 0 ELSE t
    /\ lk' = IF cache[lk[t].key] # 0
             THEN [lk EXCEPT ![t].pc = "done", ![t].res = cache[lk[t].key]]
             ELSE [lk EXCEPT ![t].pc = "miss"]
    /\ UNCHANGED <<cache, calls, graphs, pcall, treeVars, circVars, fcall>>

\* cache.get(&id): a hit returns the entry's clone; a miss leaves the block.
\* Either way the guard is dropped.
CacheGet(t) ==
    /\ lk[t].pc = "get"
    /\ lock = t
    /\ lock' = 0
    /\ lk' = IF cache[lk[t].key] # 0
             THEN [lk EXCEPT ![t].pc = "done", ![t].res = cache[lk[t].key]]
             ELSE [lk EXCEPT ![t].pc = "miss"]
    /\ UNCHANGED <<cache, calls, graphs, pcall, treeVars, circVars, fcall>>

\* loader() is called, outside the lock.
LoaderStart(t) ==
    /\ lk[t].pc = "miss"
    /\ lk' = [lk EXCEPT ![t].pc = "loading"]
    /\ UNCHANGED <<cache, lock, calls, graphs, pcall, treeVars, circVars, fcall>>

\* A variant in which a failed loader also drops the entry of its key.
LoaderEndInvalidates(t, ok) ==
    /\ lk[t].pc = "loading"
    /\ lk' = IF ok
             THEN [lk EXCEPT ![t].pc = "lock2", ![t].new_entry = lk[t].id]
             ELSE [lk EXCEPT ![t].pc = "done", ![t].err = TRUE]
    /\ cache' = IF ok THEN cache ELSE [cache EXCEPT ![lk[t].key] = 0]
    /\ UNCHANGED <<lock, calls, graphs, pcall, treeVars, circVars, fcall>>

\* loader() returns: on Ok, Arc::new makes a new instance; on Err, `?`
\* returns the error from the call.
LoaderEnd(t, ok) ==
    /\ lk[t].pc = "loading"
    /\ lk' = IF ok
             THEN [lk EXCEPT ![t].pc = "lock2", ![t].new_entry = lk[t].id]
             ELSE [lk EXCEPT ![t].pc = "done", ![t].err = TRUE]
    /\ UNCHANGED <<cache, lock, calls, graphs, pcall, treeVars, circVars, fcall>>

\* (*cache_ref).lock().unwrap() of the second block
LockSecond(t) ==
    /\ lk[t].pc = "lock2"
    /\ lock = 0
    /\ lock' = t
    /\ lk' = [lk EXCEPT ![t].pc = "insert"]
    /\ UNCHANGED <<cache, calls, graphs, pcall, treeVars, circVars, fcall>>

\* cache.insert(id, new_entry), the guard is dropped, Ok(res)
CacheInsert(t) ==
    /\ lk[t].pc = "insert"
    /\ lock = t
    /\ cache' = [cache EXCEPT ![lk[t].key] = lk[t].new_entry]
    /\ lock' = 0
    /\ lk' = [lk EXCEPT ![t].pc = "done", ![t].res = lk[t].new_entry]
    /\ UNCHANGED <<calls, graphs, pcall, treeVars, circVars, fcall>>

\* The caller lets go of what the call returned.
LookupForget(t) ==
    /\ lk[t].pc = "done"
    /\ lk' = [lk EXCEPT ![t] = NoLookup]
    /\ UNCHANGED <<cache, lock, calls, graphs, pcall, treeVars, circVars, fcall>>

CacheIdle ==
    /\ cache = EmptyCache
    /\ lock = 0
    /\ lk = [t \in Threads |-> NoLookup]
    /\ calls = 0

(***************************************************************************)
(* ParallelProofOfRetrievability::synthesize                               *)
(***************************************************************************)
\* Domain -> Fr.  From<DigestDomain> for Fr clears the top two bits of the
\* last byte; a Pedersen domain value is a field element.
ToFr(backend, v) == IF backend = "pedersen" THEN v ELSE MaskTop(v)

\* proof.as_options(): the path as (Fr, bool) pairs
AsOptions(backend, path) ==
    [j \in 1..Len(path) |->
        [sib |-> ToFr(backend, path[j].sib), is_right |-> path[j].is_right]]

\* AllocatedNum::conditionally_reverse(cur, path_element, cur_is_right)
ConditionallyReverse(a, b, cond) == IF cond THEN <<b, a>> ELSE <<a, b>>

\* DigestFunction<D>::hash_node_circuit, for every D: the preimage is the
\* height, the bits of left and the bits of right; blake2s_circuit hashes it;
\* the first packed field element of the digest (its low 254 bits) is the
\* value of a newly allocated number that no constraint ties to the digest.
DigestNodeCircuit(left, right, height) ==
    LET preimage == <<<<height>>, Enc(left), Enc(right)>>
    IN  [out |-> MaskTop(AlgHash("blake2s", preimage)), constrained |-> FALSE]

\* The Pedersen hash_node_circuit: the native node hash, constrained.
PedersenNodeCircuit(left, right, height) ==
    [out |-> PedersenNode(<<>>, left, right, height).out, constrained |-> TRUE]

HashNodeCircuit(backend, left, right, height) ==
    IF backend = "pedersen" THEN PedersenNodeCircuit(left, right, height)
    ELSE DigestNodeCircuit(left, right, height)

\* The loop over one authentication path: one position bit, one path
\* element, the reversal and the node hash per level.
RECURSIVE Ascend(_, _, _, _)
Ascend(backend, cur, path, h) ==
    IF h >= Len(path) THEN cur
    ELSE LET e == path[h + 1]
             x == ConditionallyReverse(cur, e.sib, e.is_right)
         IN  Ascend(backend, HashNodeCircuit(backend, x[1], x[2], h).out, path, h + 1)

\* auth_path_bits: the position bits of a path, lowest level first.
PackBits(path) == [j \in 1..Len(path) |-> path[j].is_right]

\* E::Fr::CAPACITY: the number of bits one field element packs.
FR_CAPACITY == 254

\* The field element that packs a chunk of bits.
Packed(bits) == [Val(<<"packed", bits>>) EXCEPT !.abs = TRUE]

\* A variant that exposes every bit as an input of its own.
PackIntoInputsEach(bits) == [c \in 1..Len(bits) |-> Packed(<<bits[c]>>)]

\* multipack::pack_into_inputs: one input per chunk of FR_CAPACITY bits.
PackIntoInputs(bits) ==
    [c \in 1..((Len(bits) + FR_CAPACITY - 1) \div FR_CAPACITY) |->
        Packed(SubSeq(bits, (c - 1) * FR_CAPACITY + 1, Min(c * FR_CAPACITY, Len(bits))))]

\* The input that every constraint system starts with.
One == Val(<<"ONE", <<>>>>)

\* An absent field element (None) and an absent path entry.
NoneFr == Val(<<"None", <<>>>>)
NonePair == [sib |-> NoneFr, is_right |-> FALSE]

\* A variant of ok_or that takes an absent value for a present one.
OkOrAny(v, none) == "Ok"

\* v.ok_or(SynthesisError::AssignmentMissing), evaluated by an allocation of
\* a constraint system that computes the assignment.
OkOr(v, none) == IF v = none THEN "AssignmentMissing" ELSE "Ok"

\* The allocations of the position bit and the path element of each level,
\* in order: the first absent entry ends synthesize.
PathOk(path) ==
    IF \E j \in 1..Len(path) : OkOr(path[j], NonePair) # "Ok"
    THEN "AssignmentMissing" ELSE "Ok"

\* The rounds i..R of synthesize: the inputs they expose and, per round, the
\* constraint "enforce root is correct" evaluated on the assignment.  Every
\* other constraint of a round is one a gadget emits together with an
\* assignment that satisfies it.  An allocation that fails ends synthesize
\* with its error.
RECURSIVE Rounds(_, _, _)
Rounds(inst, i, acc) ==
    IF i > Len(inst.values) THEN acc
    ELSE IF OkOr(inst.values[i], NoneFr) # "Ok"
    THEN [acc EXCEPT !.result = OkOr(inst.values[i], NoneFr)]
    ELSE IF PathOk(inst.auth_paths[i]) # "Ok"
    THEN [acc EXCEPT !.result = PathOk(inst.auth_paths[i]),
                     !.inputs = Append(acc.inputs, inst.values[i])]
    ELSE LET cur == Ascend(inst.backend, inst.values[i], inst.auth_paths[i], 0)
         IN  Rounds(inst, i + 1,
                    [result |-> "Ok",
                     inputs |-> Append(acc.inputs, inst.values[i])
                                   \o PackIntoInputs(PackBits(inst.auth_paths[i])),
                     root_ok |-> Append(acc.root_ok, cur = inst.root)])

Synthesize(inst) ==
    LET start == [result |-> "Ok", inputs |-> <<One>>, root_ok |-> <<>>]
        r == Rounds(inst, 1, start)
    IN  IF OkOr(inst.root, NoneFr) # "Ok"
        THEN [start EXCEPT !.result = OkOr(inst.root, NoneFr)]
        ELSE IF r.result # "Ok" THEN r
        ELSE [r EXCEPT !.inputs = Append(r.inputs, inst.root)]

\* TestConstraintSystem::is_satisfied
IsSatisfied(c) == \A i \in 1..Len(c.root_ok) : c.root_ok[i]

NoCircuit ==
    [pc |-> "none", backend |-> "none", root |-> Absent, values |-> <<>>,
     auth_paths |-> <<>>, changed |-> "none", witness |-> 0, level |-> 0,
     dropped |-> "none"]

NoCs == [result |-> "none", inputs |-> <<>>, root_ok |-> <<>>]

\* The instance the test builds: the tree over the data, one proof per
\* challenge, the values and paths as field elements, the tree's root.
CircuitAssemble(backend, data, challenges) ==
    /\ circ.pc = "none"
    /\ LET tree == MerkleTree_new(backend, SeqMap(backend, data, Len(data.nodes)))
           proofs == [i \in 1..Len(challenges) |-> gen_proof(tree, challenges[i])]
       IN  circ' = [NoCircuit EXCEPT
                       !.pc = "ready",
                       !.backend = backend,
                       !.root = ToFr(backend, Root(tree)),
                       !.values = [i \in 1..Len(challenges) |-> ToFr(backend, proofs[i].leaf)],
                       !.auth_paths = [i \in 1..Len(challenges) |->
                                          AsOptions(backend, proofs[i].path)]]
    /\ UNCHANGED <<cs, graphs, pcall, treeVars, cacheVars, fcall>>

\* The bytes and differences tried on a sibling that is a field element.
FrFlipBytes == {1, NODE_SIZE}
FrFlipDiffs == {1, 64, 65}

\* The sibling at `level` of witness i is replaced by a field element that
\* differs from it in one byte.
CorruptWitnessSibling(i, level, byte, d) ==
    /\ circ.pc = "ready"
    /\ circ.changed = "none"
    /\ circ.dropped = "none"
    /\ i \in 1..Len(circ.values)
    /\ level \in 1..Len(circ.auth_paths[i])
    /\ circ' = [circ EXCEPT !.changed = "sibling", !.witness = i, !.level = level,
                   !.auth_paths[i][level].sib =
                       FlipByte(circ.auth_paths[i][level].sib, byte, d)]
    /\ UNCHANGED <<cs, graphs, pcall, treeVars, cacheVars, fcall>>

\* The direction bit at `level` of witness i is flipped.
FlipDirectionBit(i, level) ==
    /\ circ.pc = "ready"
    /\ circ.changed = "none"
    /\ circ.dropped = "none"
    /\ i \in 1..Len(circ.values)
    /\ level \in 1..Len(circ.auth_paths[i])
    /\ circ' = [circ EXCEPT !.changed = "direction", !.witness = i, !.level = level,
                   !.auth_paths[i][level].is_right = ~circ.auth_paths[i][level].is_right]
    /\ UNCHANGED <<cs, graphs, pcall, treeVars, cacheVars, fcall>>

\* One of the instance's values is None: the root, the value of witness i, or
\* the path entry at `level` of witness i.
DropAssignment(what, i, level) ==
    /\ circ.pc = "ready"
    /\ circ.changed = "none"
    /\ circ.dropped = "none"
    /\ i \in 1..Len(circ.values)
    /\ level \in 1..Len(circ.auth_paths[i])
    /\ what \in {"root", "value", "path"}
    /\ (what = "root" => (i = 1 /\ level = 1))
    /\ (what = "value" => level = 1)
    /\ circ' = [circ EXCEPT
                   !.dropped = what, !.witness = i, !.level = level,
                   !.root = IF what = "root" THEN NoneFr ELSE @,
                   !.values[i] = IF what = "value" THEN NoneFr ELSE @,
                   !.auth_paths[i][level] = IF what = "path" THEN NonePair ELSE @]
    /\ UNCHANGED <<cs, graphs, pcall, treeVars, cacheVars, fcall>>

\* instance.synthesize(&mut cs)
CircuitSynthesize ==
    /\ circ.pc = "ready"
    /\ circ' = [circ EXCEPT !.pc = "synthesized"]
    /\ cs' = Synthesize(circ)
    /\ UNCHANGED <<graphs, pcall, treeVars, cacheVars, fcall>>

CircuitIdle == circ = NoCircuit /\ cs = NoCs


(***************************************************************************)
(* graph_height                                                            *)
(***************************************************************************)
NoFcall == [pc |-> "idle", fn |-> "none", arg |-> <<>>, out |-> <<>>]

FcallIdle == fcall = NoFcall

USIZE_BITS == 64

F64_MANTISSA_BITS == 53

\* A usize or f64 value 2^exp + rest, 0 <= rest < 2^exp.
Sizes ==
    {n \in [exp : 0..(USIZE_BITS - 1), rest : 0..MaxRest] : n.rest < Pow2(Min(n.exp, 16))}

\* size as f64: exact up to 53 bits; beyond, the bits below the 53rd are
\* rounded to nearest, ties to the even mantissa.
AsF64(n) ==
    IF n.exp < F64_MANTISSA_BITS THEN n
    ELSE LET u == Pow2(n.exp - (F64_MANTISSA_BITS - 1))
             q == n.rest \div u
             rem == n.rest % u
             up == 2 * rem > u \/ (2 * rem = u /\ q % 2 = 1)
         IN  [exp |-> n.exp, rest |-> (IF up THEN q + 1 ELSE q) * u]

\* x.log2() is exp + log2(1 + rest / 2^exp), rounded to an f64.  For exp in
\* 32..63 the f64 next to exp is exp + 2^-47, so the result is exp itself
\* when rest * log2(e) < 2^(exp - 48); below exp = 49 no rest >= 1 is that
\* small.
Log2IsWhole(x) ==
    \/ x.rest = 0
    \/ x.exp >= 49 /\ x.rest * 14427 < 10000 * Pow2(x.exp - 48)

\* x.log2().ceil() as usize
Log2Ceil(x) == IF Log2IsWhole(x) THEN x.exp ELSE x.exp + 1

\* graph_height(size) = (size as f64).log2().ceil() as usize
graph_height(size) == Log2Ceil(AsF64(size))

\* graph_height(n), merkle_tree_depth() of a graph of n nodes
GraphHeightCall(n) ==
    /\ fcall.pc = "idle"
    /\ fcall' = [pc |-> "done", fn |-> "graph_height", arg |-> n, out |-> graph_height(n)]
    /\ UNCHANGED <<graphs, pcall, treeVars, cacheVars, circVars>>

\* The caller takes the result.
FcallReturn ==
    /\ fcall.pc = "done"
    /\ fcall' = NoFcall
    /\ UNCHANGED <<graphs, pcall, treeVars, cacheVars, circVars>>

(***************************************************************************)
(* The Pedersen Merkle-Damgard digest (crypto/pedersen.rs)                 *)
(***************************************************************************)
PEDERSEN_BLOCK_SIZE == 256
PEDERSEN_BLOCK_BYTES == PEDERSEN_BLOCK_SIZE \div 8

\* A byte is <<tag, origin, index>>: byte `index` of the input ("d"), a zero
\* byte ("z"), byte `index` of the little-endian representation of the hash of
\* `origin` ("x"), or eight bits that are not the bits of one byte ("p").
DataByte(n) == <<"d", <<>>, n>>
ZeroByte == <<"z", <<>>, 0>>

\* false
FalseBit == <<ZeroByte, 0>>

\* (byte >> j) & 1
BitOf(byte, j) == IF byte = ZeroByte THEN FalseBit ELSE <<byte, j>>

\* The variant of the bit cursor that starts at the most significant bit.
BitSliceIterBE(bytes) ==
    [i \in 1..(8 * Len(bytes)) |-> BitOf(bytes[((i - 1) \div 8) + 1], 7 - ((i - 1) % 8))]

\* BitSlice<LittleEndian, u8>::iter(): bit i is bit (i mod 8), counted from the
\* least significant, of byte (i div 8).
BitSliceIter(bytes) ==
    [i \in 1..(8 * Len(bytes)) |-> BitOf(bytes[((i - 1) \div 8) + 1], (i - 1) % 8)]

\* util::bytes_into_bits: the bits of every byte, least significant first.
bytes_into_bits(bytes) ==
    [i \in 1..(8 * Len(bytes)) |-> BitOf(bytes[((i - 1) \div 8) + 1], (i - 1) % 8)]

\* Eight bits as one byte, bit j being the j-th least significant.
PackByte(b8) ==
    IF Len(b8) = 8 /\ \A j \in 1..8 : b8[j] = BitOf(b8[1][1], j - 1)
    THEN b8[1][1]
    ELSE <<"p", b8, 0>>

\* util::bits_to_bytes
bits_to_bytes(bits) ==
    [k \in 1..((Len(bits) + 7) \div 8) |->
        PackByte(SubSeq(bits, 8 * (k - 1) + 1, Min(8 * k, Len(bits))))]

\* pedersen_hash(NoteCommitment, bits).into_xy().0: the x coordinate, named by
\* the bit string that was hashed.
PedersenHashX(bits) == bits_to_bytes(bits)

\* LittleEndian::write_u64(buf, digit i of x): byte k of the buffer is byte
\* 8 i + k of the little-endian representation of x.
WriteU64(x, i) == [k \in 1..8 |-> <<"x", x, 8 * i + (k - 1)>>]

\* The 32 bytes of the representation of x.
XBytes(x) == [n \in 1..PEDERSEN_BLOCK_BYTES |-> WriteU64(x, (n - 1) \div 8)[((n - 1) % 8) + 1]]

\* pedersen_compression(bits, data_len) on a buffer of bytes: the buffer after
\* the call.
pedersen_compression(buf, data_len) ==
    LET x == PedersenHashX(SubSeq(BitSliceIter(buf), 1, Min(data_len, 8 * Len(buf))))
    IN  [n \in 1..Len(buf) |->
            IF n <= PEDERSEN_BLOCK_BYTES
            THEN WriteU64(x, (n - 1) \div 8)[((n - 1) % 8) + 1]
            ELSE buf[n]]

\* pedersen_compression_z(bits, data_len) on a buffer of bits: the buffer
\* after the call (bits.len() >= PEDERSEN_BLOCK_SIZE is asserted).
pedersen_compression_z(bits, data_len) ==
    LET x == PedersenHashX(SubSeq(bits, 1, Min(data_len, Len(bits))))
    IN  [n \in 1..Len(bits) |->
            IF n <= PEDERSEN_BLOCK_SIZE
            THEN LET i == (n - 1) \div 64
                     k == ((n - 1) % 64) \div 8
                     j == (n - 1) % 8
                 IN  BitOf(WriteU64(x, i)[k + 1], j)
            ELSE bits[n]]

\* The hash input of the compression that made the first block of a buffer.
HashedBy(buf) == buf[1][2]

\* fr32::bytes_into_frs on one block: a field element when the bytes are the
\* representation of one.
IsFrRepr(bytes) ==
    /\ Len(bytes) = PEDERSEN_BLOCK_BYTES
    /\ bytes[1][1] = "x"
    /\ bytes = XBytes(bytes[1][2])

NoFr == <<"fr", <<>>, 0>>
bytes_into_frs(bytes) ==
    IF IsFrRepr(bytes) THEN [ok |-> TRUE, fr |-> <<"fr", bytes, 0>>]
    ELSE [ok |-> FALSE, fr |-> NoFr]

MdPanic == [panic |-> TRUE, fr |-> NoFr, comps |-> <<>>]

\* The variant of the loop that also takes the first chunk.
RestChunksAll(k) == [i \in 1..k |-> i]

\* chunks after chunks.nth(0): the chunks 2..k.
RestChunks(k) == [i \in 1..(k - 1) |-> i + 1]

\* data.chunks(size): chunk b.
Chunk(data, size, b) == SubSeq(data, size * (b - 1) + 1, size * b)

\* for block in chunks { cur[32..] = block; pedersen_compression(cur, 512) }
RECURSIVE MdLoop(_, _, _, _)
MdLoop(cur, data, blocks, comps) ==
    IF blocks = <<>> THEN [cur |-> cur, comps |-> comps]
    ELSE LET filled == SubSeq(cur, 1, PEDERSEN_BLOCK_BYTES)
                           \o Chunk(data, PEDERSEN_BLOCK_BYTES, Head(blocks))
             next == pedersen_compression(filled, 2 * PEDERSEN_BLOCK_SIZE)
         IN  MdLoop(next, data, Tail(blocks), Append(comps, HashedBy(next)))

pedersen_md_no_padding(data) ==
    IF Len(data) < 2 * PEDERSEN_BLOCK_BYTES \/ Len(data) % PEDERSEN_BLOCK_BYTES # 0
    THEN MdPanic
    ELSE LET zeros == [n \in 1..(2 * PEDERSEN_BLOCK_BYTES) |-> ZeroByte]
             cur == Chunk(data, PEDERSEN_BLOCK_BYTES, 1)
                        \o SubSeq(zeros, PEDERSEN_BLOCK_BYTES + 1, 2 * PEDERSEN_BLOCK_BYTES)
             end == MdLoop(cur, data, RestChunks(Len(data) \div PEDERSEN_BLOCK_BYTES), <<>>)
             frs == bytes_into_frs(SubSeq(end.cur, 1, PEDERSEN_BLOCK_BYTES))
         IN  IF frs.ok THEN [panic |-> FALSE, fr |-> frs.fr, comps |-> end.comps]
             ELSE MdPanic

\* for block in chunks { cur[256..] = block; pedersen_compression_z(cur, 512) }
RECURSIVE MdLoopZ(_, _, _, _)
MdLoopZ(cur, bits, blocks, comps) ==
    IF blocks = <<>> THEN [cur |-> cur, comps |-> comps]
    ELSE LET filled == SubSeq(cur, 1, PEDERSEN_BLOCK_SIZE)
                           \o Chunk(bits, PEDERSEN_BLOCK_SIZE, Head(blocks))
             next == pedersen_compression_z(filled, 2 * PEDERSEN_BLOCK_SIZE)
         IN  MdLoopZ(next, bits, Tail(blocks), Append(comps, next[1][1][2]))

pedersen_md_no_padding_z(data) ==
    LET data_bits == bytes_into_bits(data)
    IN  IF Len(data_bits) < 2 * PEDERSEN_BLOCK_SIZE \/ Len(data_bits) % PEDERSEN_BLOCK_SIZE # 0
        THEN MdPanic
        ELSE LET zeros == [n \in 1..(2 * PEDERSEN_BLOCK_SIZE) |-> FalseBit]
                 cur == Chunk(data_bits, PEDERSEN_BLOCK_SIZE, 1)
                            \o SubSeq(zeros, PEDERSEN_BLOCK_SIZE + 1, 2 * PEDERSEN_BLOCK_SIZE)
                 end == MdLoopZ(cur, data_bits,
                                RestChunks(Len(data_bits) \div PEDERSEN_BLOCK_SIZE), <<>>)
                 frs == bytes_into_frs(bits_to_bytes(SubSeq(end.cur, 1, PEDERSEN_BLOCK_SIZE)))
             IN  IF frs.ok THEN [panic |-> FALSE, fr |-> frs.fr, comps |-> end.comps]
                 ELSE MdPanic

\* The inputs: every length up to MaxBlocks blocks and one byte, with all
\* bytes different or with two bytes alternating.
MdLens == 0..(MaxBlocks * PEDERSEN_BLOCK_BYTES + 1)
MdInputs ==
    {[i \in 1..n |-> DataByte(i)] : n \in MdLens}
        \cup {[i \in 1..n |-> DataByte(i % 2)] : n \in MdLens}

\* The buffers handed to a compression on its own: one or two blocks, the
\* data at the front and zeros behind it, and the length of the data in bits.
CompressionInputs ==
    {[buf |-> [i \in 1..(b * PEDERSEN_BLOCK_BYTES) |-> IF i <= n THEN DataByte(i) ELSE ZeroByte],
      data_len |-> 8 * n] :
        b \in 1..2, n \in {0, 1, 10, PEDERSEN_BLOCK_BYTES, 2 * PEDERSEN_BLOCK_BYTES}}

MdCall(data) ==
    /\ fcall.pc = "idle"
    /\ fcall' = [pc |-> "done", fn |-> "pedersen_md_no_padding", arg |-> data,
                 out |-> pedersen_md_no_padding(data)]
    /\ UNCHANGED <<graphs, pcall, treeVars, cacheVars, circVars>>

MdZCall(data) ==
    /\ fcall.pc = "idle"
    /\ fcall' = [pc |-> "done", fn |-> "pedersen_md_no_padding_z", arg |-> data,
                 out |-> pedersen_md_no_padding_z(data)]
    /\ UNCHANGED <<graphs, pcall, treeVars, cacheVars, circVars>>

CompressionCall(in) ==
    /\ fcall.pc = "idle"
    /\ in.data_len <= 8 * Len(in.buf)
    /\ fcall' = [pc |-> "done", fn |-> "pedersen_compression", arg |-> in,
                 out |-> pedersen_compression(in.buf, in.data_len)]
    /\ UNCHANGED <<graphs, pcall, treeVars, cacheVars, circVars>>

CompressionZCall(in) ==
    /\ fcall.pc = "idle"
    /\ in.data_len <= 8 * Len(in.buf)
    /\ fcall' = [pc |-> "done", fn |-> "pedersen_compression_z", arg |-> in,
                 out |-> pedersen_compression_z(bytes_into_bits(in.buf), in.data_len)]
    /\ UNCHANGED <<graphs, pcall, treeVars, cacheVars, circVars>>

(***************************************************************************)
(* DigestHasher::kdf, DigestFunction::hash, Algorithm::node on their own   *)
(***************************************************************************)
DigestBackends == Backends \ {"pedersen"}

\* D::digest(data) as a DigestDomain: the 32 bytes of the digest, as they are.
DigestFunction_hash(alg, data) == AlgHash(alg, <<<<"bytes", data.len, data.val>>>>)

\* DigestHasher::kdf(data, m): asserts data.len() = 32 (1 + m), hashes, and
\* clears the top two bits of the last byte.
kdf(alg, data, m) ==
    IF data.len # NODE_SIZE * (1 + m) THEN Panicked
    ELSE MaskTop(DigestFunction_hash(alg, data))

\* The byte strings handed to kdf and hash: 0..3 nodes long, two contents.
HashInputs == {Bytes(NODE_SIZE * k, <<"data", <<id>>>>) : k \in 0..3, id \in 1..2}

\* The children handed to node: node data, and what node and kdf return.
ChildValues ==
    LeafVals \cup {DigestNode(alg, <<>>, DataLeaf(1, 0), DataLeaf(2, 2), 0).out : alg \in DigestBackends}
             \cup {kdf(alg, Bytes(NODE_SIZE, <<"data", <<1>>>>), 0) : alg \in DigestBackends}

KdfCall(alg, data, m) ==
    /\ fcall.pc = "idle"
    /\ fcall' = [pc |-> "done", fn |-> "kdf", arg |-> <<alg, data, m>>,
                 out |-> kdf(alg, data, m)]
    /\ UNCHANGED <<graphs, pcall, treeVars, cacheVars, circVars>>

HashCall(alg, data) ==
    /\ fcall.pc = "idle"
    /\ fcall' = [pc |-> "done", fn |-> "hash", arg |-> <<alg, data>>,
                 out |-> DigestFunction_hash(alg, data)]
    /\ UNCHANGED <<graphs, pcall, treeVars, cacheVars, circVars>>

\* Algorithm::node on a hasher that was reset.
NodeCall(alg, left, right, height) ==
    /\ fcall.pc = "idle"
    /\ fcall' = [pc |-> "done", fn |-> "node", arg |-> <<alg, left, right, height>>,
                 out |-> DigestNode(alg, AlgReset(<<>>), left, right, height).out]
    /\ UNCHANGED <<graphs, pcall, treeVars, cacheVars, circVars>>

(***************************************************************************)
(* Domain for DigestDomain: into_bytes, try_from_bytes, write_bytes        *)
(***************************************************************************)
\* Byte i (1..32) of the domain value v.
ByteOf(v, i) == <<"b", Enc(v), i>>

\* self.0: the array of the 32 bytes of v.
Array(v) == [i \in 1..NODE_SIZE |-> ByteOf(v, i)]

\* A byte of a buffer that no domain value was written to.
OldByte(i) == <<"old", <<>>, i>>

\* res.0.copy_from_slice(&raw[0..32]): the domain value whose array is a.
FromArray(a) ==
    IF a[1][1] = "b"
    THEN LET e == a[1][2]
             v == [base |-> e[1], bi |-> e[2], bd |-> e[3], tx |-> e[4], abs |-> e[5]]
         IN  IF a = Array(v) THEN v ELSE Val(<<"bytes", a>>)
    ELSE Val(<<"bytes", a>>)

\* A sequence of bytes as a slice: its length and, when it is one node long,
\* the domain value of these bytes.
AsSlice(raw) == Bytes(Len(raw), IF Len(raw) = NODE_SIZE THEN FromArray(raw) ELSE Absent)

\* Domain::into_bytes: self.0.to_vec()
into_bytes(v) == SubSeq(Array(v), 1, Len(Array(v)))

\* Domain::try_from_bytes on a sequence of bytes
try_from_bytes(raw) == DigestTryFromBytes(AsSlice(raw))

\* Domain::write_bytes: the result and dest after the call.
write_bytes(v, dest) ==
    IF Len(dest) < 32
    THEN [ok |-> FALSE, err |-> "InvalidInputSize", dest |-> dest]
    ELSE [ok |-> TRUE, err |-> "none",
          dest |-> [i \in 1..Len(dest) |-> IF i <= 32 THEN Array(v)[i] ELSE dest[i]]]

\* Buffers of 0 .. 2 NODE_SIZE bytes: the first bytes of a domain value's
\* array followed by other bytes.
BufLens == 0..(2 * NODE_SIZE)
Buffer(v, len) ==
    [i \in 1..len |-> IF i <= NODE_SIZE THEN ByteOf(v, i) ELSE OldByte(i)]
Dest(len) == [i \in 1..len |-> OldByte(i)]

IntoBytesCall(v) ==
    /\ fcall.pc = "idle"
    /\ fcall' = [pc |-> "done", fn |-> "into_bytes", arg |-> v, out |-> into_bytes(v)]
    /\ UNCHANGED <<graphs, pcall, treeVars, cacheVars, circVars>>

TryFromBytesCall(raw) ==
    /\ fcall.pc = "idle"
    /\ fcall' = [pc |-> "done", fn |-> "try_from_bytes", arg |-> raw,
                 out |-> try_from_bytes(raw)]
    /\ UNCHANGED <<graphs, pcall, treeVars, cacheVars, circVars>>

WriteBytesCall(v, dest) ==
    /\ fcall.pc = "idle"
    /\ fcall' = [pc |-> "done", fn |-> "write_bytes", arg |-> [self |-> v, dest |-> dest],
                 out |-> write_bytes(v, dest)]
    /\ UNCHANGED <<graphs, pcall, treeVars, cacheVars, circVars>>

(***************************************************************************)
(* BucketGraph::new and the getters of a graph                             *)
(***************************************************************************)
\* A variant that checks the base degree only.
AssertsHoldBaseOnly(unchecked, base_degree, expansion_degree) ==
    unchecked \/ base_degree = BASE_DEGREE

\* The two assertions of new: assert_eq!(base_degree, BASE_DEGREE) unless the
\* build has the feature "unchecked-degrees", and assert_eq!(expansion_degree, 0).
AssertsHold(unchecked, base_degree, expansion_degree) ==
    /\ (~unchecked => base_degree = BASE_DEGREE)
    /\ expansion_degree = 0

\* BucketGraph::new in a build with or without the feature: the graph, or a
\* panic and no graph.
Graph_new(unchecked, nodes, base_degree, expansion_degree, seed) ==
    IF AssertsHold(unchecked, base_degree, expansion_degree)
    THEN [panic |-> FALSE, graph |-> <<BucketGraph_new(nodes, base_degree, expansion_degree, seed)>>]
    ELSE [panic |-> TRUE, graph |-> <<>>]

\* Graph::size, Graph::degree, Graph::seed
Graph_size(g) == g.nodes
Graph_degree(g) == g.base_degree
Graph_seed(g) == g.seed

GraphNewCall(unchecked, nodes, base_degree, expansion_degree, seed) ==
    /\ fcall.pc = "idle"
    /\ fcall' = [pc |-> "done", fn |-> "BucketGraph::new",
                 arg |-> [unchecked |-> unchecked, nodes |-> nodes, base_degree |-> base_degree,
                          expansion_degree |-> expansion_degree, seed |-> seed],
                 out |-> Graph_new(unchecked, nodes, base_degree, expansion_degree, seed)]
    /\ UNCHANGED <<graphs, pcall, treeVars, cacheVars, circVars>>

(***************************************************************************)
(* The sampling loop body in usize arithmetic                              *)
(***************************************************************************)
\* A usize is USIZE_BITS = 64 bits wide: four limbs of 16 bits, the least
\* significant first.
LIMB == 65536
Usize(n) == <<n % LIMB, n \div LIMB, 0, 0>>

\* x * c for a small c: the low 64 bits, and whether the product overflowed.
MulUsize(x, c) ==
    LET p1 == x[1] * c
        p2 == x[2] * c + (p1 \div LIMB)
        p3 == x[3] * c + (p2 \div LIMB)
        p4 == x[4] * c + (p3 \div LIMB)
    IN  [val |-> <<p1 % LIMB, p2 % LIMB, p3 % LIMB, p4 % LIMB>>,
         overflow |-> p4 \div LIMB # 0]

\* a <= b
LeqUsize(a, b) ==
    \/ a = b
    \/ LET i == CHOOSE i \in 1..4 : a[i] # b[i] /\ \A j \in (i + 1)..4 : a[j] = b[j]
       IN  a[i] < b[i]

\* The usize values the model computes with as integers.
IsSmall(x) == x[3] = 0 /\ x[4] = 0 /\ x[2] < 16384
AsInt(x) == x[1] + LIMB * x[2]

\* The nodes of the model: 2..MaxNodes, and the nodes whose product with
\* BASE_DEGREE is r modulo 2^64, r in 1..MaxWrap (0xCCCC_CCCC_CCCC_CCCD times r).
WideNode(r) == MulUsize(<<52429, 52428, 52428, 52428>>, r).val
SampleNodes == {Usize(n) : n \in 2..MaxNodes} \cup {WideNode(r) : r \in 1..MaxWrap}

NoSample == [panic |-> "none", logi |-> 0, jj |-> 0, back_dist |-> 0, nmk |-> 0,
             parent |-> <<>>]

\* The loop body for slot k of `node` (a usize), in a build that checks
\* arithmetic overflow (`checked`) or wraps: everything it computes, and the
\* value written to the slot or the panic that ends it.
BucketSampleUsize(checked, node, m, k, w1, w2) ==
    LET prod == MulUsize(node, m)
        nm == AsInt(prod.val)
        logi == IF nm = 0 THEN 0 ELSE FloorLog2(nm)
    IN  IF prod.overflow /\ checked THEN [NoSample EXCEPT !.panic = "mul_overflow"]
        ELSE IF logi = 0 THEN [NoSample EXCEPT !.panic = "rem_by_zero"]
        ELSE
        LET j == w1 % logi
            jj == Min(nm + k, Pow2(j + 1))
            back_dist == GenRange(w2, Max(jj \div 2, 2), jj + 1)
            r == [NoSample EXCEPT !.logi = logi, !.jj = jj, !.back_dist = back_dist,
                                  !.nmk = nm + k]
        IN  IF back_dist > nm + k THEN [r EXCEPT !.panic = "sub_overflow"]
            ELSE
            LET out == Usize((nm + k - back_dist) \div m)
            IN  IF out = node THEN [r EXCEPT !.parent = Usize(AsInt(node) - 1)]
                ELSE IF LeqUsize(out, node) THEN [r EXCEPT !.parent = out]
                ELSE [r EXCEPT !.panic = "assert_out_le_node"]

\* One pass of the loop body, on its own.
SampleCall(checked, node, k, w1, w2) ==
    /\ fcall.pc = "idle"
    /\ IsSmall(MulUsize(node, BASE_DEGREE).val)
    /\ fcall' = [pc |-> "done", fn |-> "sample",
                 arg |-> [checked |-> checked, node |-> node, k |-> k, w1 |-> w1, w2 |-> w2],
                 out |-> BucketSampleUsize(checked, node, BASE_DEGREE, k, w1, w2)]
    /\ UNCHANGED <<graphs, pcall, treeVars, cacheVars, circVars>>

(***************************************************************************)
(* synthesize on a constraint system of the setup or of the proving phase  *)
(***************************************************************************)
\* A constraint system of the proving phase evaluates the assignment closure
\* of every allocation; one of the setup phase never calls it.
Phases == {"setup", "proving"}

\* cs.alloc(|| name, f) with f = || v.ok_or(AssignmentMissing): the result.
Alloc(phase, present) ==
    IF phase = "proving" /\ ~present THEN "AssignmentMissing" ELSE "Ok"

\* The value of an allocated number is the one its closure produced: Some
\* only if the closure ran.
NumKnown(phase, present) == phase = "proving" /\ present

\* hash_node_circuit on bits whose values are known or not.  The digest
\* function reads alloc_bits[..].get_value().unwrap() outside any closure:
\* the output bits of blake2s_circuit carry a value only if every bit of the
\* preimage does.  The Pedersen function reads no value.
HashNodeCircuitOn(backend, leftKnown, rightKnown) ==
    IF backend \in DigestBackends /\ ~(leftKnown /\ rightKnown) THEN "panic" ELSE "Ok"

\* The gadgets one level of the path runs when nothing fails, in order.
LevelGadgets ==
    <<"position bit", "path element", "conditional reversal of preimage",
      "xl into bits", "xr into bits", "computation of pedersen hash">>

\* The loop over the path from level h: the gadgets run, the outcome, and
\* whether cur carries a value.
RECURSIVE AscendOn(_, _, _, _, _)
AscendOn(phase, backend, path, h, acc) ==
    IF h >= Len(path) THEN acc
    ELSE LET present == path[h + 1] # NonePair
             bit == Alloc(phase, present)
             elem == Alloc(phase, present)
             known == acc.known /\ NumKnown(phase, present)
             hash == HashNodeCircuitOn(backend, known, known)
         IN  IF bit # "Ok"
             THEN [acc EXCEPT !.result = bit,
                              !.gadgets = acc.gadgets \o SubSeq(LevelGadgets, 1, 1)]
             ELSE IF elem # "Ok"
             THEN [acc EXCEPT !.result = elem,
                              !.gadgets = acc.gadgets \o SubSeq(LevelGadgets, 1, 2)]
             ELSE IF hash # "Ok"
             THEN [acc EXCEPT !.result = hash,
                              !.gadgets = acc.gadgets \o LevelGadgets]
             ELSE AscendOn(phase, backend, path, h + 1,
                           [acc EXCEPT !.gadgets = acc.gadgets \o LevelGadgets,
                                       !.known = phase = "proving"])

\* The rounds i..R: per round the value, its input, the path, the packed
\* position bits as inputs and the constraint on the root.
RECURSIVE RoundsOn(_, _, _, _)
RoundsOn(phase, inst, i, acc) ==
    IF i > Len(inst.values) THEN acc
    ELSE LET present == inst.values[i] # NoneFr
             value == Alloc(phase, present)
             enter == [acc EXCEPT !.gadgets = acc.gadgets \o <<"value", "value num">>,
                                  !.inputs = acc.inputs + 1,
                                  !.known = NumKnown(phase, present)]
             up == AscendOn(phase, inst.backend, inst.auth_paths[i], 0, enter)
             packed == Len(PackIntoInputs(PackBits(inst.auth_paths[i])))
         IN  IF value # "Ok"
             THEN [acc EXCEPT !.result = value, !.gadgets = Append(acc.gadgets, "value")]
             ELSE IF up.result # "Ok" THEN up
             ELSE RoundsOn(phase, inst, i + 1,
                           [up EXCEPT !.gadgets = up.gadgets
                                          \o <<"packed auth_path", "enforce root is correct">>,
                                      !.inputs = up.inputs + packed])

\* ParallelProofOfRetrievability::synthesize(cs) on a constraint system of
\* the given phase: Ok, an error or a panic, the number of public inputs
\* and the gadgets that emitted variables and constraints.
SynthesizeOn(phase, inst) ==
    LET root == Alloc(phase, inst.root # NoneFr)
        start == [result |-> "Ok", inputs |-> 1, gadgets |-> <<"root value">>,
                  known |-> NumKnown(phase, inst.root # NoneFr)]
        r == RoundsOn(phase, inst, 1, start)
    IN  IF root # "Ok" THEN [start EXCEPT !.result = root]
        ELSE IF r.result # "Ok" THEN r
        ELSE [r EXCEPT !.gadgets = Append(r.gadgets, "root"), !.inputs = r.inputs + 1]

\* What the constraint system holds afterwards.
Emitted(c) == [inputs |-> c.inputs, gadgets |-> c.gadgets]

\* An instance of R witnesses with paths of `height` levels: every value a
\* None placeholder, or every value present.
ShapedInstance(backend, R, height, filled) ==
    [backend |-> backend,
     root |-> IF filled THEN Val(<<"fr", <<0, 0>>>>) ELSE NoneFr,
     values |-> [i \in 1..R |-> IF filled THEN Val(<<"fr", <<i, 0>>>>) ELSE NoneFr],
     auth_paths |-> [i \in 1..R |-> [j \in 1..height |->
                        IF filled THEN [sib |-> Val(<<"fr", <<i, j>>>>), is_right |-> j % 2 = 1]
                        ELSE NonePair]]]

\* instance.synthesize(&mut cs) for an instance of the given shape
SynthesizeCall(phase, backend, R, height, filled) ==
    /\ fcall.pc = "idle"
    /\ LET arg == [phase |-> phase, backend |-> backend, R |-> R, height |-> height,
                   filled |-> filled]
       IN  fcall' = [pc |-> "done", fn |-> "synthesize", arg |-> arg,
                     out |-> SynthesizeOn(phase, ShapedInstance(backend, R, height, filled))]
    /\ UNCHANGED <<graphs, pcall, treeVars, cacheVars, circVars>>

(***************************************************************************)
(* Specifications                                                          *)
(***************************************************************************)
\* Sampling with an arbitrary stream, one caller.
InitGraph ==
    /\ \E g \in GraphValues : graphs = [i \in GraphIds |-> g]
    /\ GraphIdle
    /\ TreeIdle
    /\ CacheIdle
    /\ CircuitIdle
    /\ FcallIdle

NextGraph ==
    \/ \E gid \in {1}, node \in 0..(MaxNodes - 1), buf \in PriorBuffers(BASE_DEGREE) :
          ParentsEnter(1, gid, node, buf)
    \/ SampleAny(1)
    \/ ParentsReturn(1)

SpecGraph == InitGraph /\ [][NextGraph]_vars

\* Sampling with the cipher's stream, concurrent callers, several graphs.
InitPure ==
    /\ graphs \in [GraphIds -> GraphValues]
    /\ graphs[1].nodes = MaxNodes
    /\ GraphIdle
    /\ TreeIdle
    /\ CacheIdle
    /\ CircuitIdle
    /\ FcallIdle

NextPure ==
    \E t \in Callers :
        \/ \E gid \in GraphIds, node \in 0..(MaxNodes - 1),
              buf \in PriorBuffers(BASE_DEGREE) : ParentsEnter(t, gid, node, buf)
        \/ SampleStream(t)
        \/ ParentsReturn(t)

SpecPure == InitPure /\ [][NextPure]_vars

InitTree ==
    /\ \E n \in 2..MaxNodes :
         /\ graphs = [i \in GraphIds |-> BucketGraph_new(n, BASE_DEGREE, 0, SeedOf(0))]
         /\ \E backend \in Backends :
              tinput \in [backend : {backend}, data : DataInputs(backend, n)]
    /\ GraphIdle
    /\ CacheIdle
    /\ CircuitIdle
    /\ FcallIdle
    /\ build = NoBuild
    /\ proof = NoProof

NextTree ==
    \/ \E parallel \in BOOLEAN : MerkleTreeAuxEnter(parallel)
    \/ \E i \in 0..(MaxNodes - 1) : ParLeaf(i)
    \/ ParCollect
    \/ \E i \in 0..(MaxNodes - 1) : GenProof(i)
    \/ \E level \in 1..MaxNodes, byte \in FlipBytes, d \in FlipDiffs :
          CorruptSibling(level, byte, d)

SpecTree == InitTree /\ [][NextTree]_vars

InitCache ==
    /\ graphs = [i \in GraphIds |-> BucketGraph_new(2, BASE_DEGREE, 0, SeedOf(0))]
    /\ GraphIdle
    /\ TreeIdle
    /\ CacheIdle
    /\ CircuitIdle
    /\ FcallIdle

NextCache ==
    \/ \E t \in Threads, key \in Keys : LookupEnter(t, key)
    \/ \E t \in Threads : LockFirst(t)
    \/ \E t \in Threads : CacheGet(t)
    \/ \E t \in Threads : LoaderStart(t)
    \/ \E t \in Threads, ok \in BOOLEAN : LoaderEnd(t, ok)
    \/ \E t \in Threads : LockSecond(t)
    \/ \E t \in Threads : CacheInsert(t)
    \/ \E t \in Threads : LookupForget(t)

SpecCache == InitCache /\ [][NextCache]_vars

\* The data of an instance: field elements for Pedersen, any bytes otherwise.
CircuitData(backend, n) ==
    {[nodes |-> s, extra |-> 0] :
        s \in [1..n -> NodeValues(backend)]}

InitCircuit ==
    /\ graphs = [i \in GraphIds |-> BucketGraph_new(2, BASE_DEGREE, 0, SeedOf(0))]
    /\ GraphIdle
    /\ TreeIdle
    /\ CacheIdle
    /\ CircuitIdle
    /\ FcallIdle

NextCircuit ==
    \/ \E backend \in Backends, n \in 2..MaxLeaves, r \in 1..MaxBatch :
          \E data \in CircuitData(backend, n), challenges \in [1..r -> 0..(n - 1)] :
             CircuitAssemble(backend, data, challenges)
    \/ \E i \in 1..MaxBatch, level \in 1..MaxLeaves, byte \in FrFlipBytes, d \in FrFlipDiffs :
          CorruptWitnessSibling(i, level, byte, d)
    \/ \E i \in 1..MaxBatch, level \in 1..MaxLeaves : FlipDirectionBit(i, level)
    \/ \E what \in {"root", "value", "path"}, i \in 1..MaxBatch, level \in 1..MaxLeaves :
          DropAssignment(what, i, level)
    \/ CircuitSynthesize

SpecCircuit == InitCircuit /\ [][NextCircuit]_vars

InitHeight ==
    /\ graphs = [i \in GraphIds |-> BucketGraph_new(2, BASE_DEGREE, 0, SeedOf(0))]
    /\ GraphIdle
    /\ TreeIdle
    /\ CacheIdle
    /\ CircuitIdle
    /\ FcallIdle

NextHeight ==
    \/ \E n \in Sizes : GraphHeightCall(n)
    \/ FcallReturn

SpecHeight == InitHeight /\ [][NextHeight]_vars

InitMd ==
    /\ graphs = [i \in GraphIds |-> BucketGraph_new(2, BASE_DEGREE, 0, SeedOf(0))]
    /\ GraphIdle
    /\ TreeIdle
    /\ CacheIdle
    /\ CircuitIdle
    /\ FcallIdle

NextMd ==
    \/ \E data \in MdInputs : MdCall(data)
    \/ \E data \in MdInputs : MdZCall(data)
    \/ \E in \in CompressionInputs : CompressionCall(in)
    \/ \E in \in CompressionInputs : CompressionZCall(in)
    \/ FcallReturn

SpecMd == InitMd /\ [][NextMd]_vars

InitHash ==
    /\ graphs = [i \in GraphIds |-> BucketGraph_new(2, BASE_DEGREE, 0, SeedOf(0))]
    /\ GraphIdle
    /\ TreeIdle
    /\ CacheIdle
    /\ CircuitIdle
    /\ FcallIdle

NextHash ==
    \/ \E alg \in DigestBackends, data \in HashInputs, m \in 0..2 : KdfCall(alg, data, m)
    \/ \E alg \in DigestBackends, data \in HashInputs : HashCall(alg, data)
    \/ \E alg \in DigestBackends, left \in ChildValues, right \in ChildValues,
          height \in 0..(MaxNodes - 1) : NodeCall(alg, left, right, height)
    \/ FcallReturn

SpecHash == InitHash /\ [][NextHash]_vars

InitDomain ==
    /\ graphs = [i \in GraphIds |-> BucketGraph_new(2, BASE_DEGREE, 0, SeedOf(0))]
    /\ GraphIdle
    /\ TreeIdle
    /\ CacheIdle
    /\ CircuitIdle
    /\ FcallIdle

NextDomain ==
    \/ \E v \in ChildValues : IntoBytesCall(v)
    \/ \E v \in ChildValues, len \in BufLens : TryFromBytesCall(Buffer(v, len))
    \/ \E v \in ChildValues, len \in BufLens : WriteBytesCall(v, Dest(len))
    \/ FcallReturn

SpecDomain == InitDomain /\ [][NextDomain]_vars

InitNew ==
    /\ graphs = [i \in GraphIds |-> BucketGraph_new(2, BASE_DEGREE, 0, SeedOf(0))]
    /\ GraphIdle
    /\ TreeIdle
    /\ CacheIdle
    /\ CircuitIdle
    /\ FcallIdle

NextNew ==
    \/ \E unchecked \in BOOLEAN, nodes \in 1..MaxNodes,
          base_degree \in (BASE_DEGREE - 1)..(BASE_DEGREE + 1),
          expansion_degree \in 0..1, seed \in Seeds :
            GraphNewCall(unchecked, nodes, base_degree, expansion_degree, seed)
    \/ FcallReturn

SpecNew == InitNew /\ [][NextNew]_vars

\* Fair scheduling of the lookups: a thread that can take a step of its call
\* eventually takes it, a thread that waits for the mutex eventually gets it,
\* and a loader for SlowKey may run for ever while every other loader ends.
SlowKey == "post"

FairLookup(t) ==
    /\ SF_vars(LockFirst(t))
    /\ WF_vars(CacheGet(t))
    /\ WF_vars(LoaderStart(t))
    /\ WF_vars(lk[t].key # SlowKey /\ \E ok \in BOOLEAN : LoaderEnd(t, ok))
    /\ SF_vars(LockSecond(t))
    /\ WF_vars(CacheInsert(t))

\* The lookups of the fair specification: at most MaxFairCalls are entered.
NextCacheFair ==
    \/ \E t \in Threads, key \in Keys : calls < MaxFairCalls /\ LookupEnter(t, key)
    \/ \E t \in Threads : LockFirst(t)
    \/ \E t \in Threads : CacheGet(t)
    \/ \E t \in Threads : LoaderStart(t)
    \/ \E t \in Threads, ok \in BOOLEAN : LoaderEnd(t, ok)
    \/ \E t \in Threads : LockSecond(t)
    \/ \E t \in Threads : CacheInsert(t)
    \/ \E t \in Threads : LookupForget(t)

SpecCacheFair ==
    InitCache /\ [][NextCacheFair]_vars /\ \A t \in Threads : FairLookup(t)

InitSample ==
    /\ graphs = [i \in GraphIds |-> BucketGraph_new(2, BASE_DEGREE, 0, SeedOf(0))]
    /\ GraphIdle
    /\ TreeIdle
    /\ CacheIdle
    /\ CircuitIdle
    /\ FcallIdle

NextSample ==
    \/ \E checked \in BOOLEAN, node \in SampleNodes, k \in 0..(BASE_DEGREE - 1),
          w1 \in RawVals, w2 \in RawVals : SampleCall(checked, node, k, w1, w2)
    \/ FcallReturn

SpecSample == InitSample /\ [][NextSample]_vars

NextSetup ==
    \/ \E phase \in Phases, backend \in Backends, R \in 0..MaxBatch,
          height \in 0..MaxPath, filled \in BOOLEAN :
           SynthesizeCall(phase, backend, R, height, filled)
    \/ FcallReturn

SpecSetup == InitSample /\ [][NextSetup]_vars


(***************************************************************************)
(* Properties of parents()                                                 *)
(***************************************************************************)
Degree(t) == graphs[pcall[t].gid].base_degree

\* The first m slots of caller t's buffer.
Written(t) == SubSeq(pcall[t].parents, 1, Degree(t))

IsSorted(s) == \A i \in 1..(Len(s) - 1) : s[i] <= s[i + 1]

Occurrences(s, v) == Cardinality({i \in 1..Len(s) : s[i] = v})

SameElements(a, b) ==
    /\ Len(a) = Len(b)
    /\ \A i \in 1..Len(a) : Occurrences(a, a[i]) = Occurrences(b, a[i])

\* C1: for a node n >= 2, whatever words the stream yields, every parent
\* index that parents(n, out) writes is strictly less than n: the slots
\* written so far while the loop runs, and all base_degree slots once the
\* call is done; the call never panics.
C1_ParentsBelowNode ==
    \A t \in Callers :
        LET c == pcall[t]
        IN  /\ c.pc # "panic"
            /\ (c.pc \in {"sampling", "done"} /\ c.node >= 2) =>
                   \A i \in 1..c.k : c.filled[i] < c.node /\ c.filled[i] >= 0
            /\ (c.pc = "done" /\ c.node >= 2) =>
                   \A i \in 1..Degree(t) : c.parents[i] < c.node

\* A finished call for the last node whose largest parent is the node
\* just before it, in a buffer that held stale values.
C1_Witness ==
    /\ pcall[1].pc = "done"
    /\ pcall[1].node = MaxNodes - 1
    /\ pcall[1].parents[Degree(1)] = pcall[1].node - 1
    /\ pcall[1].prior[1] > MaxNodes

\* C2: parents(0, out) and parents(1, out) leave 0 in each of the first
\* base_degree slots of out, whatever the slots held before the call.
C2_FirstNodesAllZero ==
    \A t \in Callers :
        (pcall[t].pc = "done" /\ pcall[t].node \in {0, 1}) =>
            \A i \in 1..Degree(t) : pcall[t].parents[i] = 0

\* A finished call for node 1 on a buffer whose slots all held stale,
\* non-zero values.
C2_Witness ==
    /\ pcall[1].pc = "done"
    /\ pcall[1].node = 1
    /\ \A i \in 1..Len(pcall[1].prior) : pcall[1].prior[i] # 0
    /\ Len(pcall[1].prior) > Degree(1)

\* C3: for a node n >= 2, when parents(n, out) returns the first
\* base_degree slots are in non-decreasing order and hold exactly the values
\* the loop wrote, duplicates included.
C3_ParentsSorted ==
    \A t \in Callers :
        (pcall[t].pc = "done" /\ pcall[t].node >= 2) =>
            /\ IsSorted(Written(t))
            /\ SameElements(Written(t), SubSeq(pcall[t].filled, 1, Degree(t)))

\* A finished call whose slots were filled out of order and with a
\* duplicate.
C3_Witness ==
    /\ pcall[1].pc = "done"
    /\ pcall[1].node >= 2
    /\ ~IsSorted(SubSeq(pcall[1].filled, 1, Degree(1)))
    /\ \E i \in 1..(Degree(1) - 1) : pcall[1].parents[i] = pcall[1].parents[i + 1]
    /\ pcall[1].parents[1] # pcall[1].parents[Degree(1)]

\* C4: two finished calls for the same node on graphs with the same seed
\* and base degree hold the same parent sequence, whatever the callers'
\* buffers held before, whatever calls were made in between or run
\* concurrently, and whatever the sizes of the two graphs.
C4_ParentsDeterministic ==
    \A t, u \in Callers :
        (/\ pcall[t].pc = "done" /\ pcall[u].pc = "done"
         /\ pcall[t].node = pcall[u].node
         /\ graphs[pcall[t].gid].seed = graphs[pcall[u].gid].seed
         /\ Degree(t) = Degree(u))
        => Written(t) = Written(u)

\* Two callers hold the result for the same node >= 2 of two graphs of
\* different sizes and equal seeds, in buffers of different length and
\* prior contents.
C4_Witness ==
    /\ pcall[1].pc = "done" /\ pcall[2].pc = "done"
    /\ pcall[1].node = pcall[2].node /\ pcall[1].node >= 2
    /\ pcall[1].gid # pcall[2].gid
    /\ graphs[1].seed = graphs[2].seed
    /\ graphs[1].nodes # graphs[2].nodes
    /\ pcall[1].prior # pcall[2].prior
    /\ Len(pcall[1].prior) # Len(pcall[2].prior)
    /\ Written(1)[1] # Written(1)[Degree(1)]

(***************************************************************************)
(* Properties of the Merkle tree and its proofs                            *)
(***************************************************************************)
\* C5: the proof gen_proof(i) yields for a leaf of the tree merkle_tree_aux
\* built, in parallel or sequentially, with any backend and any number of
\* nodes from 2 on, validates.
C5_HonestProofValidates ==
    (proof.set /\ proof.clevel = 0) => Proof_validate(tinput.backend, proof)

C5_Witness ==
    /\ proof.set /\ proof.clevel = 0
    /\ build.parallel
    /\ TreeSize = MaxNodes
    /\ proof.index = TreeSize - 1
    /\ tinput.backend = "sha256"
    /\ Proof_validate(tinput.backend, proof)

\* C6: once one byte of one sibling of a proof is changed, validate()
\* returns false, with every backend.
C6_CorruptedSiblingRejected ==
    proof.clevel > 0 => ~Proof_validate(tinput.backend, proof)

\* C7: the tree of the parallel build equals the tree the sequential build
\* makes of the same graph and data, leaves, inner nodes and root, in
\* whatever order the leaf tasks ran.
C7_ParallelEqualsSequential ==
    (build.pc = "done" /\ build.parallel) =>
        /\ build.store = SeqMap(tinput.backend, tinput.data, TreeSize)
        /\ build.tree = MerkleTree_new(tinput.backend, SeqMap(tinput.backend, tinput.data, TreeSize))

C7_Witness ==
    /\ build.pc = "done" /\ build.parallel
    /\ TreeSize = MaxNodes
    /\ build.store[1] # build.store[2]
    /\ build.tree = MerkleTree_new(tinput.backend, SeqMap(tinput.backend, tinput.data, TreeSize))

(***************************************************************************)
(* Properties of qap_cache_lookup                                          *)
(***************************************************************************)
Returned(t) == lk[t].pc = "done" /\ ~lk[t].err

Overlapped(t, u) == t # u /\ lk[u].id \in lk[t].overlap

Loading(t) == lk[t].pc = "loading"

\* C8: lookups of one key that ran concurrently on one cache, their loaders
\* succeeding, all return the same shared instance.
C8_ConcurrentLookupsShareInstance ==
    \A t, u \in Threads :
        (Returned(t) /\ Returned(u) /\ Overlapped(t, u) /\ lk[t].key = lk[u].key)
            => lk[t].res = lk[u].res

\* C9: at no time are two loader invocations for one key in flight.
C9_OneLoaderPerKey ==
    \A t, u \in Threads :
        (t # u /\ Loading(t) /\ Loading(u)) => lk[t].key # lk[u].key

\* C22: under fair scheduling a lookup for a key other than the one whose
\* loader runs for ever always returns, and no thread holds the cache lock
\* while its loader executes.
C22_OtherKeysAlwaysReturn ==
    /\ [](\A t \in Threads : Loading(t) => lock # t)
    /\ \A t \in Threads :
         (Running(t) /\ lk[t].key # SlowKey) ~> (lk[t].pc = "done")

\* A lookup for another key has returned an instance while a lookup for
\* SlowKey that was entered before it is still in its loader.
C22_Witness ==
    \E t, u \in Threads :
        /\ Returned(t) /\ lk[t].key # SlowKey
        /\ Loading(u) /\ lk[u].key = SlowKey
        /\ lk[u].id < lk[t].id

\* Call u was entered after call t had returned.
EnteredAfter(u, t) == lk[u].pc # "idle" /\ lk[u].id > lk[t].id /\ ~Overlapped(t, u)

\* Call u found no entry and went on to its loader.
Missed(u) ==
    \/ lk[u].pc \in {"miss", "loading", "lock2", "insert"}
    \/ lk[u].err
    \/ lk[u].new_entry # 0

\* C23: once a lookup for key k has returned instance A, the entry of k stays
\* A, and every lookup for k entered afterwards returns A without invoking its
\* loader.
C23_ReturnedInstanceStays ==
    \A t, u \in Threads :
        (Returned(t) /\ EnteredAfter(u, t) /\ lk[u].key = lk[t].key) =>
            /\ cache[lk[t].key] = lk[t].res
            /\ ~Missed(u)
            /\ Returned(u) => lk[u].res = lk[t].res

\* Call t has returned the error of its loader.
Failed(t) == lk[t].pc = "done" /\ lk[t].err

ChainReachesRoot(i) ==
    ToFr(circ.backend, Replay(circ.backend, <<>>, circ.values[i], circ.auth_paths[i], 0))
        = circ.root

\* C10: the constraints synthesize emits are satisfied exactly when every
\* witness's hash chain reaches the shared root; they are satisfied for
\* honest proofs, and not satisfied once one sibling or one direction bit of
\* one witness is changed.
C10_SatisfiedIffChainsReachRoot ==
    (circ.pc = "synthesized" /\ cs.result = "Ok") =>
        /\ IsSatisfied(cs) <=> (\A i \in 1..Len(circ.values) : ChainReachesRoot(i))
        /\ circ.changed = "none" => IsSatisfied(cs)
        /\ circ.changed # "none" => ~IsSatisfied(cs)

\* The pair of children hashed at level h (from 0) of witness i.
PairAt(i, h) ==
    LET cur == Ascend(circ.backend, circ.values[i], SubSeq(circ.auth_paths[i], 1, h), 0)
        e == circ.auth_paths[i][h + 1]
    IN  ConditionallyReverse(cur, e.sib, e.is_right)

\* C11: at every level of every witness, the value hash_node_circuit returns
\* is the backend's native node hash of the same children and height, as a
\* field element, and constraints tie the returned value to that hash.
C11_CircuitHashIsNativeHash ==
    (circ.pc = "synthesized" /\ cs.result = "Ok") =>
        \A i \in 1..Len(circ.values) : \A h \in 0..(Len(circ.auth_paths[i]) - 1) :
            LET x == PairAt(i, h)
                c == HashNodeCircuit(circ.backend, x[1], x[2], h)
            IN  /\ c.constrained
                /\ c.out = ToFr(circ.backend, AlgNode(circ.backend, <<>>, x[1], x[2], h).out)

\* Some value of the instance is None.
SomeMissing ==
    \/ circ.root = NoneFr
    \/ \E i \in 1..Len(circ.values) :
          \/ circ.values[i] = NoneFr
          \/ \E j \in 1..Len(circ.auth_paths[i]) : circ.auth_paths[i][j] = NonePair

\* C12: on a constraint system that computes the assignment, synthesize
\* returns AssignmentMissing when the root, a value or a path entry is None,
\* and returns Ok when none is, also for a wrong hash chain; it does not
\* panic.
C12_MissingAssignmentIsAnError ==
    circ.pc = "synthesized" =>
        /\ cs.result \in {"Ok", "AssignmentMissing"}
        /\ cs.result = "AssignmentMissing" <=> SomeMissing

C12_Witness ==
    /\ circ.pc = "synthesized"
    /\ circ.dropped = "path"
    /\ circ.witness = MaxBatch
    /\ circ.level = 2
    /\ cs.result = "AssignmentMissing"

(***************************************************************************)
(* Properties of merkle_tree_aux                                           *)
(***************************************************************************)
RightLength == DataLen(tinput.data) = NODE_SIZE * TreeSize

\* The call has ended: with Err, with Ok, or by a panic.
BuildEnded == build.pc \in {"err", "done", "panic"}

\* C13: merkle_tree_aux returns Err(InvalidMerkleTreeArgs) exactly when
\* data.len() differs from NODE_SIZE * size(); for data of that length it
\* returns Ok with a tree of size() leaves, leaf i being the domain value of
\* the i-th node-sized chunk.
C13_LengthCheckedTreeBuilt ==
    BuildEnded =>
        /\ build.pc = "err" <=> ~RightLength
        /\ build.pc = "err" => build.tree = <<>>
        /\ RightLength =>
              /\ build.pc = "done"
              /\ build.tree.leafs = TreeSize
              /\ \A i \in 0..(TreeSize - 1) :
                    build.tree.levels[1][i + 1] = tinput.data.nodes[i + 1]

\* C14: merkle_tree_aux does not panic, whatever the bytes of the data, in
\* the parallel and in the sequential build.
C14_NoPanicOnData == build.pc # "panic"

\* C15: graph_height(N) is ceil(log2(N)) for every N >= 1: exp for N = 2^exp,
\* exp + 1 for 2^exp < N < 2^(exp + 1).
C15_HeightIsCeilLog2 ==
    (fcall.pc = "done" /\ fcall.fn = "graph_height") =>
        fcall.out = IF fcall.arg.rest = 0 THEN fcall.arg.exp ELSE fcall.arg.exp + 1


(***************************************************************************)
(* Properties of the Pedersen digest                                       *)
(***************************************************************************)
Accepted(data) ==
    Len(data) >= 2 * PEDERSEN_BLOCK_BYTES /\ Len(data) % PEDERSEN_BLOCK_BYTES = 0

\* C16: for an input of a multiple of 32 bytes, at least 64, the byte-oriented
\* digest returns the field element the bit-oriented digest returns, and a
\* byte-oriented compression writes the 256 bits (as 32 bytes) that the
\* bit-oriented compression writes for the same input bits.
C16_ByteAndBitDigestsAgree ==
    /\ (fcall.pc = "done" /\ fcall.fn = "pedersen_md_no_padding" /\ Accepted(fcall.arg)) =>
            /\ ~fcall.out.panic
            /\ fcall.out.fr = pedersen_md_no_padding_z(fcall.arg).fr
    /\ (fcall.pc = "done" /\ fcall.fn = "pedersen_compression") =>
            SubSeq(fcall.out, 1, PEDERSEN_BLOCK_BYTES) =
                bits_to_bytes(SubSeq(
                    pedersen_compression_z(bytes_into_bits(fcall.arg.buf), fcall.arg.data_len),
                    1, PEDERSEN_BLOCK_SIZE))

\* A digest of MaxBlocks blocks has been computed by the byte-oriented digest.
C16_Witness ==
    /\ fcall.pc = "done"
    /\ fcall.fn = "pedersen_md_no_padding"
    /\ Len(fcall.arg) = MaxBlocks * PEDERSEN_BLOCK_BYTES
    /\ ~fcall.out.panic
    /\ fcall.out.fr # NoFr


\* The running state after the compression of hash input x, followed by
\* block b of the data: what the next compression takes in.
StateThenBlock(data, x, b) == XBytes(x) \o Chunk(data, PEDERSEN_BLOCK_BYTES, b)

IsDigestCall ==
    /\ fcall.pc = "done"
    /\ fcall.fn \in {"pedersen_md_no_padding", "pedersen_md_no_padding_z"}

\* C17: both digests fail, with no digest, on an input of fewer than 64 bytes
\* or of a length that is not a multiple of 32, and succeed on every other
\* input; on k blocks they make k - 1 compressions, the first of blocks 1 and
\* 2, each later one of the running state followed by the next block.
C17_LengthCheckedAndChained ==
    IsDigestCall =>
        LET data == fcall.arg
            k == Len(data) \div PEDERSEN_BLOCK_BYTES
            comps == fcall.out.comps
        IN  IF Accepted(data)
            THEN /\ ~fcall.out.panic
                 /\ fcall.out.fr # NoFr
                 /\ Len(comps) = k - 1
                 /\ comps[1] = SubSeq(data, 1, 2 * PEDERSEN_BLOCK_BYTES)
                 /\ \A i \in 2..(k - 1) : comps[i] = StateThenBlock(data, comps[i - 1], i + 1)
            ELSE fcall.out = MdPanic

\* The bit-oriented digest has chained MaxBlocks blocks.
C17_Witness ==
    /\ IsDigestCall
    /\ fcall.fn = "pedersen_md_no_padding_z"
    /\ Len(fcall.arg) = MaxBlocks * PEDERSEN_BLOCK_BYTES
    /\ Len(fcall.out.comps) = MaxBlocks - 1


(***************************************************************************)
(* Properties of the digest hasher                                         *)
(***************************************************************************)
\* The top two bits of the last byte of v are zero.
TopBitsZero(v) == v.abs /\ v.tx = 0

Derived ==
    /\ fcall.pc = "done"
    /\ fcall.fn \in {"kdf", "hash", "node"}
    /\ fcall.out # Panicked

\* C18: every value that kdf, DigestFunction::hash or Algorithm::node returns
\* has the top two bits of its last byte zero.
C18_DerivedValuesAreMasked == Derived => TopBitsZero(fcall.out)


\* C19: into_bytes gives 32 bytes that try_from_bytes turns back into the same
\* value; try_from_bytes fails with InvalidInputSize exactly when its input is
\* not 32 bytes long; write_bytes fails with InvalidInputSize and leaves dest
\* as it was when dest is shorter than 32 bytes, and otherwise replaces
\* dest[0..32] by the value's bytes and nothing else.
C19_DomainBytesRoundTrip ==
    /\ (fcall.pc = "done" /\ fcall.fn = "into_bytes") =>
            /\ Len(fcall.out) = 32
            /\ try_from_bytes(fcall.out) = [ok |-> TRUE, err |-> "none", val |-> fcall.arg]
    /\ (fcall.pc = "done" /\ fcall.fn = "try_from_bytes") =>
            /\ fcall.out.ok = (Len(fcall.arg) = 32)
            /\ (fcall.out.err = "InvalidInputSize") = (Len(fcall.arg) # 32)
            /\ fcall.out.ok => into_bytes(fcall.out.val) = fcall.arg
    /\ (fcall.pc = "done" /\ fcall.fn = "write_bytes") =>
            LET before == fcall.arg.dest
                after == fcall.out.dest
            IN  IF Len(before) < 32
                THEN ~fcall.out.ok /\ fcall.out.err = "InvalidInputSize" /\ after = before
                ELSE /\ fcall.out.ok
                     /\ Len(after) = Len(before)
                     /\ SubSeq(after, 1, 32) = into_bytes(fcall.arg.self)
                     /\ \A i \in 33..Len(before) : after[i] = before[i]

\* A value with a top bit set has been written to a longer buffer, and the
\* bytes written read back as that value.
C19_Witness ==
    /\ fcall.pc = "done"
    /\ fcall.fn = "write_bytes"
    /\ fcall.out.ok
    /\ Len(fcall.arg.dest) > 32
    /\ ~TopBitsZero(fcall.arg.self)
    /\ try_from_bytes(SubSeq(fcall.out.dest, 1, 32)).val = fcall.arg.self


C25_SamplingStaysInRange ==
    (fcall.pc = "done" /\ fcall.fn = "sample") =>
        LET r == fcall.out
        IN  /\ r.panic = "none"
            /\ r.logi >= 1
            /\ r.jj >= 2
            /\ r.back_dist >= Max(r.jj \div 2, 2)
            /\ r.back_dist <= r.jj
            /\ r.back_dist <= r.nmk
            /\ LeqUsize(r.parent, fcall.arg.node)
            /\ r.parent # fcall.arg.node


(***************************************************************************)
(* Properties of synthesize by phase                                       *)
(***************************************************************************)
SetupOfPlaceholders ==
    /\ fcall.pc = "done"
    /\ fcall.fn = "synthesize"
    /\ fcall.arg.phase = "setup"
    /\ ~fcall.arg.filled

ProvingOfSameShape ==
    SynthesizeOn("proving",
                 ShapedInstance(fcall.arg.backend, fcall.arg.R, fcall.arg.height, TRUE))

\* C26: synthesize of an instance of None placeholders on a constraint
\* system of the setup phase returns Ok for every hash backend, without a
\* panic, and emits the public inputs and constraints that a synthesis of
\* the proving phase emits for an instance of the same R and path length.
C26_SetupSynthesisCompletes ==
    SetupOfPlaceholders =>
        /\ fcall.out.result = "Ok"
        /\ Emitted(fcall.out) = Emitted(ProvingOfSameShape)

=============================================================================
